---- MODULE Spec2Model ----
(***************************************************************************)
(* Sales / package-ledger engine of the back-office: the route handlers of *)
(* src/app/api/sales/route.ts (GET, POST, PUT) over a transactional        *)
(* relational datastore, plus the confirm and cancel operations the sales  *)
(* page calls.  Money is modelled with integers; the input domains are     *)
(* chosen so that every percentage is exact.                               *)
(***************************************************************************)
EXTENDS Integers, Sequences, FiniteSets, TLC

\* ------------------------------------------------------------------------
\* Bounds
\* ------------------------------------------------------------------------
MaxSales == 2      \* sales of the creation specifications
MaxEdited == 1     \* sales of the update specifications
MaxPkgs  == 2      \* values the client_packages id sequence hands out
MaxK     == 2      \* largest opening balance of the contended package
MaxClients == 2    \* clients of the client specification

\* ------------------------------------------------------------------------
\* Values
\* ------------------------------------------------------------------------
Null    == "null"          \* SQL NULL
Missing == ""              \* a JSON field that is absent (falsy in JS)

Users   == {"ana", "bob", "root"}
NoUser  == Missing         \* a request that carries no valid token
Callers == Users \cup {NoUser}

IsAdmin(u) == u = "root"

Reqs  == 1 .. (MaxK + 1)   \* request slots (requests in flight)

OrNull(x) == IF x = Missing THEN Null ELSE x

VARIABLES
  sales,        \* committed rows of sales (with their sale_items), by id
  packages,     \* committed rows of client_packages, by id
  consumptions, \* committed consumption links {[pkg, sale, qty]}
  commissions,  \* committed commission rows, by sale id
  nextSaleId,   \* sales id sequence
  nextPkgId,    \* client_packages id sequence
  pc,           \* per request slot: position of the handler
  req,          \* per request slot: the request being handled
  txn,          \* per request slot: uncommitted writes of its transaction
  resp,         \* per request slot: the response sent
  form,         \* sales page: the form and the service selected in it
  quote,        \* sales page: the subtotal computed for the form
  clients,      \* committed rows of clients, by id
  nextClientId, \* clients id sequence
  taxIdUnique   \* schema: whether clients.cpf_cnpj has a unique index

db   == <<sales, packages, consumptions, commissions>>
seqs == <<nextSaleId, nextPkgId>>
page == <<form, quote>>
registry == <<clients, nextClientId, taxIdUnique>>
server == <<sales, packages, consumptions, commissions, nextSaleId, nextPkgId,
            pc, req, txn, resp>>
vars == <<sales, packages, consumptions, commissions, nextSaleId, nextPkgId,
          pc, req, txn, resp, form, quote, clients, nextClientId, taxIdUnique>>

NoReq  == [kind |-> "none"]
NoTxn  == [open |-> FALSE]
NoResp == [status |-> 0]
NoForm == [saleType |-> "01"]
NoQuote == <<>>

\* the registry of clients before any client is created
NoClients ==
  /\ clients = <<>>
  /\ nextClientId = 1
  /\ taxIdUnique = TRUE

\* ------------------------------------------------------------------------
\* Pure computations of the handlers
\* ------------------------------------------------------------------------
Given(opt) == opt # <<>>                \* an optional value that is present

RECURSIVE SumOver(_, _)
SumOver(rows, field) ==
  IF rows = <<>> THEN 0
  ELSE Head(rows)[field] + SumOver(Tail(rows), field)

\* subtotal of one item: the caller's calculatedSubtotal when it is there
ItemSubtotal(it) ==
  IF Given(it.calculatedSubtotal) THEN it.calculatedSubtotal[1]
  ELSE it.quantity * it.unitPrice

\* the discount branch shared by the item loop and the general discount
DiscountAmount(type, value, base) ==
  IF type = "percentage" /\ value > 0 THEN (base * value) \div 100
  ELSE IF type = "fixed" /\ value > 0 THEN value
  ELSE 0

ItemTotal(subtotal, discountAmount) == subtotal - discountAmount

\* the sale_items row the loop body inserts for one item of the request
ItemRow(it) ==
  LET subtotal       == ItemSubtotal(it)
      discountAmount == DiscountAmount(it.discountType, it.discountValue, subtotal)
  IN  [quantity       |-> it.quantity,
       unitPrice      |-> it.unitPrice,
       discountType   |-> OrNull(it.discountType),
       discountValue  |-> it.discountValue,
       subtotal       |-> subtotal,
       discountAmount |-> discountAmount,
       total          |-> ItemTotal(subtotal, discountAmount)]

ItemRows(items) == [i \in 1 .. Len(items) |-> ItemRow(items[i])]

GeneralDiscountAmount(b, totalSubtotal) ==
  DiscountAmount(b.generalDiscountType, b.generalDiscountValue, totalSubtotal)

FinalTotal(totalSubtotal, totalDiscountAmount, generalDiscountAmount) ==
  totalSubtotal - totalDiscountAmount - generalDiscountAmount

\* SaleTotals with total_discount leaving the general discount out
SaleTotalsItemDiscountOnly(b, rows) ==
  LET totalSubtotal         == SumOver(rows, "subtotal")
      totalDiscountAmount   == SumOver(rows, "discountAmount")
      generalDiscountAmount == GeneralDiscountAmount(b, totalSubtotal)
  IN  [subtotal      |-> totalSubtotal,
       totalDiscount |-> totalDiscountAmount,
       total         |-> FinalTotal(totalSubtotal, totalDiscountAmount,
                                    generalDiscountAmount)]

\* the three values of "UPDATE sales SET subtotal, total_discount, total"
SaleTotals(b, rows) ==
  LET totalSubtotal         == SumOver(rows, "subtotal")
      totalDiscountAmount   == SumOver(rows, "discountAmount")
      generalDiscountAmount == GeneralDiscountAmount(b, totalSubtotal)
  IN  [subtotal      |-> totalSubtotal,
       totalDiscount |-> totalDiscountAmount + generalDiscountAmount,
       total         |-> FinalTotal(totalSubtotal, totalDiscountAmount,
                                    generalDiscountAmount)]

\* ------------------------------------------------------------------------
\* Datastore: transactions and row locks
\* ------------------------------------------------------------------------
InTxn(r) == txn[r].open

\* a transaction that updated a sales row holds its row lock until it ends
SaleLockedByOther(r, id) ==
  \E o \in Reqs \ {r} :
    InTxn(o) /\ ~txn[o].insert /\ txn[o].saleId = id /\ Given(txn[o].row)

\* a transaction that consumed from a package holds its row lock
PkgLockedByOther(r, p) ==
  \E o \in Reqs \ {r} : InTxn(o) /\ Given(txn[o].consume) /\ txn[o].consume[1].pkg = p

\* BEGIN: a transaction with no writes yet
BeginTxn(id, insert) ==
  [open |-> TRUE, saleId |-> id, insert |-> insert, row |-> <<>>,
   items |-> <<>>, totals |-> <<>>, pkg |-> <<>>, consume |-> <<>>]

\* the sales row a transaction's writes leave, over the committed row `old`
WrittenSale(t, old) ==
  LET r0 == IF t.insert
            THEN t.row[1] @@ [subtotal |-> 0, totalDiscount |-> 0, total |-> 0,
                              items |-> <<>>]
            ELSE IF Given(t.row) THEN t.row[1] @@ old ELSE old
      r1 == IF Given(t.items) THEN [r0 EXCEPT !.items = t.items[1]] ELSE r0
  IN  IF Given(t.totals)
      THEN [r1 EXCEPT !.subtotal = t.totals[1].subtotal,
                      !.totalDiscount = t.totals[1].totalDiscount,
                      !.total = t.totals[1].total]
      ELSE r1

SalesAfter(t) ==
  IF t.insert /\ ~Given(t.row) THEN sales
  ELSE IF t.insert THEN (t.saleId :> WrittenSale(t, <<>>)) @@ sales
  ELSE IF t.saleId \in DOMAIN sales
       THEN [sales EXCEPT ![t.saleId] = WrittenSale(t, sales[t.saleId])]
       ELSE sales

PackagesAfter(t) ==
  LET created == IF Given(t.pkg) THEN (t.pkg[1].id :> t.pkg[1].row) @@ packages
                 ELSE packages
  IN  IF Given(t.consume)
      THEN LET c == t.consume[1]
           IN  [created EXCEPT
                  ![c.pkg].consumedQuantity  = @ + c.qty,
                  ![c.pkg].availableQuantity = @ - c.qty]
      ELSE created

ConsumptionsAfter(t) ==
  IF Given(t.consume)
  THEN consumptions \cup {[pkg |-> t.consume[1].pkg, sale |-> t.saleId,
                           qty |-> t.consume[1].qty, reversed |-> FALSE]}
  ELSE consumptions

\* COMMIT: the writes `t` of the transaction become the committed rows
Commit(t) ==
  /\ sales' = SalesAfter(t)
  /\ packages' = PackagesAfter(t)
  /\ consumptions' = ConsumptionsAfter(t)
  /\ UNCHANGED commissions

\* ROLLBACK: the writes `t` of the transaction are discarded
Rollback(t) == UNCHANGED db

\* ------------------------------------------------------------------------
\* Responses
\* ------------------------------------------------------------------------
AuthFailed == "Falha na autenticacao"

\* status of the outer catch of POST and PUT
CatchStatus(message) == IF message = AuthFailed THEN 401 ELSE 400

\* the handler returns a response: the request is over
Reply(r, status, error) ==
  /\ pc' = [pc EXCEPT ![r] = "done"]
  /\ req' = [req EXCEPT ![r] = NoReq]
  /\ resp' = [resp EXCEPT ![r] =
               [status |-> status, error |-> error, saleId |-> 0, saleType |-> ""]]
  /\ UNCHANGED <<page, registry>>

ReplySale(r, status, id, saleType) ==
  /\ pc' = [pc EXCEPT ![r] = "done"]
  /\ req' = [req EXCEPT ![r] = NoReq]
  /\ resp' = [resp EXCEPT ![r] =
               [status |-> status, error |-> "", saleId |-> id, saleType |-> saleType]]
  /\ UNCHANGED <<page, registry>>

\* the handler of `request` goes on to its statement `label`
Enter(r, label, request) ==
  /\ pc' = [pc EXCEPT ![r] = label]
  /\ req' = [req EXCEPT ![r] = request]
  /\ resp' = [resp EXCEPT ![r] = NoResp]
  /\ UNCHANGED <<page, registry>>

Goto(r, label) ==
  /\ pc' = [pc EXCEPT ![r] = label]
  /\ UNCHANGED <<req, resp, page, registry>>

Free(r) == pc[r] \in {"idle", "done"}

\* authenticateUser: the user of the token, or a throw
Authenticated(u) == u \in Users

\* OnError with COMMIT issued where the catch issues ROLLBACK
OnErrorCommits(r, t, message) ==
  /\ Commit(t)
  /\ txn' = [txn EXCEPT ![r] = NoTxn]
  /\ Reply(r, CatchStatus(message), message)

\* OnError with no ROLLBACK issued: the transaction stays open with its writes
OnErrorNoRollback(r, t, message) ==
  /\ UNCHANGED db
  /\ txn' = [txn EXCEPT ![r] = t]
  /\ Reply(r, CatchStatus(message), message)

\* the inner catch of POST and PUT, reached with the writes `t` made so far:
\* ROLLBACK, rethrow; the outer catch answers
OnError(r, t, message) ==
  /\ Rollback(t)
  /\ txn' = [txn EXCEPT ![r] = NoTxn]
  /\ Reply(r, CatchStatus(message), message)

DatastoreError == "datastore error"

\* ------------------------------------------------------------------------
\* POST /api/sales
\* ------------------------------------------------------------------------
\* PostValidation without the check of packageId for sale type 03
PostValidationNoPackage(b) ==
  IF b.clientId = Missing THEN "Cliente e obrigatorio"
  ELSE IF b.paymentMethod = Missing THEN "Metodo de pagamento e obrigatorio"
  ELSE IF ~b.itemsGiven \/ Len(b.items) = 0
       THEN "A venda deve ter pelo menos um item"
  ELSE ""

\* the validations before BEGIN: the error of the first that fails, or ""
PostValidation(b) ==
  IF b.clientId = Missing THEN "Cliente e obrigatorio"
  ELSE IF b.paymentMethod = Missing THEN "Metodo de pagamento e obrigatorio"
  ELSE IF ~b.itemsGiven \/ Len(b.items) = 0
       THEN "A venda deve ter pelo menos um item"
  ELSE IF b.saleType = "03" /\ b.packageId = 0
       THEN "Package ID obrigatorio para consumo de pacote"
  ELSE ""

\* NewSaleRow with the sale inserted as already confirmed
NewSaleRowConfirmed(u, b) ==
  [clientId             |-> b.clientId,
   attendant            |-> u,
   status               |-> "confirmada",
   paymentMethod        |-> b.paymentMethod,
   generalDiscountType  |-> OrNull(b.generalDiscountType),
   generalDiscountValue |-> b.generalDiscountValue]

\* the row of "INSERT INTO sales (...) VALUES (..., 'aberta')"
NewSaleRow(u, b) ==
  [clientId             |-> b.clientId,
   attendant            |-> u,
   status               |-> "aberta",
   paymentMethod        |-> b.paymentMethod,
   generalDiscountType  |-> OrNull(b.generalDiscountType),
   generalDiscountValue |-> b.generalDiscountValue]

\* the statements of POST between BEGIN and the sale-type logic, in order
PostStatements == <<"sale", "items", "totals">>

\* the transaction after the first n of them
PostWrites(t, id, u, b, n) ==
  LET t1 == IF n >= 1 THEN [t EXCEPT !.saleId = id, !.row = <<NewSaleRow(u, b)>>]
            ELSE t
      t2 == IF n >= 2 THEN [t1 EXCEPT !.items = <<ItemRows(b.items)>>] ELSE t1
  IN  IF n >= 3 THEN [t2 EXCEPT !.totals = <<SaleTotals(b, t2.items[1])>>] ELSE t2

\* the handler up to the sale-type logic: authentication, validations,
\* BEGIN, the sale, its items, its totals
PostBegin(r, u, b) ==
  /\ Free(r)
  /\ UNCHANGED <<db, nextPkgId>>
  /\ IF ~Authenticated(u)
     THEN Reply(r, CatchStatus(AuthFailed), AuthFailed) /\ UNCHANGED <<txn, nextSaleId>>
     ELSE IF PostValidation(b) # ""
     THEN Reply(r, 400, PostValidation(b)) /\ UNCHANGED <<txn, nextSaleId>>
     ELSE /\ Enter(r, "ledger", [kind |-> "POST", caller |-> u, body |-> b])
          /\ txn' = [txn EXCEPT ![r] =
                       PostWrites(BeginTxn(0, TRUE), nextSaleId, u, b, 3)]
          /\ nextSaleId' = nextSaleId + 1

\* the same with statement n+1 of them failing, after the first n
PostBeginFail(r, u, b, n) ==
  /\ Free(r)
  /\ Authenticated(u)
  /\ PostValidation(b) = ""
  /\ n \in 0 .. 2
  /\ nextSaleId' = IF n >= 1 THEN nextSaleId + 1 ELSE nextSaleId
  /\ OnError(r, PostWrites(BeginTxn(0, TRUE), nextSaleId, u, b, n), DatastoreError)
  /\ UNCHANGED nextPkgId

\* unit_price of a new package: totalPaid / totalQuantity, kept as a fraction
\* (a zero denominator is the Infinity or NaN of the JS division)
Quotient(num, den) == [num |-> num, den |-> den]

\* NewPackageRow with the quantities of all the items as the credits
NewPackageRowAllItems(b, saleId, finalTotal) ==
  LET totalQuantity == SumOver(b.items, "quantity")
      totalPaid     == finalTotal
  IN  [clientId          |-> b.clientId,
       serviceId         |-> b.serviceId,
       saleId            |-> saleId,
       initialQuantity   |-> totalQuantity,
       consumedQuantity  |-> 0,
       availableQuantity |-> totalQuantity,
       unitPrice         |-> Quotient(totalPaid, totalQuantity),
       totalPaid         |-> totalPaid,
       isActive          |-> TRUE]

\* NewPackageRow with the first sale as the originating sale of every package
NewPackageRowOfFirstSale(b, saleId, finalTotal) ==
  LET totalQuantity == b.items[1].quantity
      totalPaid     == finalTotal
  IN  [clientId          |-> b.clientId,
       serviceId         |-> b.serviceId,
       saleId            |-> 1,
       initialQuantity   |-> totalQuantity,
       consumedQuantity  |-> 0,
       availableQuantity |-> totalQuantity,
       unitPrice         |-> Quotient(totalPaid, totalQuantity),
       totalPaid         |-> totalPaid,
       isActive          |-> TRUE]

\* the row of "INSERT INTO client_packages", from the first item
NewPackageRow(b, saleId, finalTotal) ==
  LET totalQuantity == b.items[1].quantity
      totalPaid     == finalTotal
  IN  [clientId          |-> b.clientId,
       serviceId         |-> b.serviceId,
       saleId            |-> saleId,
       initialQuantity   |-> totalQuantity,
       consumedQuantity  |-> 0,
       availableQuantity |-> totalQuantity,
       unitPrice         |-> Quotient(totalPaid, totalQuantity),
       totalPaid         |-> totalPaid,
       isActive          |-> TRUE]

\* consume_package(package, sale, quantity): the outcome on the committed row
ConsumeOutcome(p, qty) ==
  IF p \notin DOMAIN packages \/ ~packages[p].isActive THEN "NotFound"
  ELSE IF qty > packages[p].availableQuantity THEN "InsufficientBalance"
  ELSE "ok"

\* LedgerBranch with no consumption for sale type 03
LedgerBranchNoConsume(b) ==
  IF b.saleType = "02" /\ b.serviceId # Missing THEN "create"
  ELSE "none"

\* which branch of the sale-type logic the request takes
LedgerBranch(b) ==
  IF b.saleType = "02" /\ b.serviceId # Missing THEN "create"
  ELSE IF b.saleType = "03" /\ b.packageId # 0 THEN "consume"
  ELSE "none"

\* ConsumeFailed with the error swallowed: the handler goes on to COMMIT
ConsumeSwallowed(r, outcome) ==
  /\ Goto(r, "commit")
  /\ UNCHANGED <<db, seqs, txn>>

\* the catch around consume_package: rethrow, so that the sale is rolled
\* back; the message of the new error carries the one of consume_package
ConsumeFailed(r, outcome) ==
  /\ OnError(r, txn[r], outcome)
  /\ UNCHANGED seqs

PostLedger(r) ==
  LET b == req[r].body
      t == txn[r]
  IN
  /\ pc[r] = "ledger"
  /\ CASE LedgerBranch(b) = "create" ->
            /\ nextPkgId <= MaxPkgs
            /\ txn' = [txn EXCEPT ![r].pkg =
                 <<[id |-> nextPkgId,
                    row |-> NewPackageRow(b, t.saleId, t.totals[1].total)]>>]
            /\ nextPkgId' = nextPkgId + 1
            /\ Goto(r, "commit")
            /\ UNCHANGED <<db, nextSaleId>>
       [] LedgerBranch(b) = "consume" ->
            /\ ~PkgLockedByOther(r, b.packageId)
            /\ IF ConsumeOutcome(b.packageId, b.items[1].quantity) = "ok"
               THEN /\ txn' = [txn EXCEPT ![r].consume =
                         <<[pkg |-> b.packageId, qty |-> b.items[1].quantity]>>]
                    /\ Goto(r, "commit")
                    /\ UNCHANGED <<db, seqs>>
               ELSE ConsumeFailed(r, ConsumeOutcome(b.packageId, b.items[1].quantity))
       [] OTHER ->
            /\ Goto(r, "commit")
            /\ UNCHANGED <<db, seqs, txn>>

PostCommit(r) ==
  /\ pc[r] = "commit"
  /\ req[r].kind = "POST"
  /\ Commit(txn[r])
  /\ txn' = [txn EXCEPT ![r] = NoTxn]
  /\ ReplySale(r, 201, txn[r].saleId, req[r].body.saleType)
  /\ UNCHANGED seqs

\* the sale-type statement or COMMIT fails
TxnFail(r) ==
  /\ pc[r] \in {"ledger", "commit"}
  /\ OnError(r, txn[r], DatastoreError)
  /\ UNCHANGED seqs

\* ------------------------------------------------------------------------
\* PUT /api/sales
\* ------------------------------------------------------------------------
\* PutValidation without the check of the sale's status
PutValidationAnyStatus(u, b) ==
  IF b.id = 0 THEN <<400, "ID da venda e obrigatorio">>
  ELSE IF b.id \notin DOMAIN sales THEN <<404, "Venda nao encontrada">>
  ELSE IF ~IsAdmin(u) /\ sales[b.id].attendant # u
       THEN <<403, "Voce nao tem permissao para editar esta venda">>
  ELSE <<0, "">>

\* PutValidation without the check of the caller's permission
PutValidationAnyCaller(u, b) ==
  IF b.id = 0 THEN <<400, "ID da venda e obrigatorio">>
  ELSE IF b.id \notin DOMAIN sales THEN <<404, "Venda nao encontrada">>
  ELSE IF sales[b.id].status # "aberta"
       THEN <<400, "Apenas vendas abertas podem ser editadas">>
  ELSE <<0, "">>

\* the checks before BEGIN, on the committed row: <<status, error>> of the
\* first that fails, or <<0, "">>
PutValidation(u, b) ==
  IF b.id = 0 THEN <<400, "ID da venda e obrigatorio">>
  ELSE IF b.id \notin DOMAIN sales THEN <<404, "Venda nao encontrada">>
  ELSE IF sales[b.id].status # "aberta"
       THEN <<400, "Apenas vendas abertas podem ser editadas">>
  ELSE IF ~IsAdmin(u) /\ sales[b.id].attendant # u
       THEN <<403, "Voce nao tem permissao para editar esta venda">>
  ELSE <<0, "">>

PutCheck(r, u, b) ==
  /\ Free(r)
  /\ UNCHANGED <<db, seqs>>
  /\ IF ~Authenticated(u)
     THEN Reply(r, CatchStatus(AuthFailed), AuthFailed) /\ UNCHANGED txn
     ELSE IF PutValidation(u, b)[1] # 0
     THEN Reply(r, PutValidation(u, b)[1], PutValidation(u, b)[2]) /\ UNCHANGED txn
     ELSE /\ Enter(r, "putWrite", [kind |-> "PUT", caller |-> u, body |-> b])
          /\ txn' = [txn EXCEPT ![r] = BeginTxn(b.id, FALSE)]

\* the columns "UPDATE sales SET client_id, ..., general_discount_value" sets
UpdatedHeader(b) ==
  [clientId             |-> b.clientId,
   paymentMethod        |-> b.paymentMethod,
   generalDiscountType  |-> OrNull(b.generalDiscountType),
   generalDiscountValue |-> b.generalDiscountValue]

\* the statements of PUT between BEGIN and COMMIT, in order
PutStatements == <<"header", "delete", "items", "totals">>

\* PutWrites with the package creation of POST run again on the new items
PutWritesWithPackage(t, b, n) ==
  LET t1 == IF n >= 1 THEN [t EXCEPT !.row = <<UpdatedHeader(b)>>] ELSE t
      t2 == IF n >= 2 THEN [t1 EXCEPT !.items = << <<>> >>] ELSE t1
      t3 == IF n >= 3 THEN [t2 EXCEPT !.items = <<ItemRows(b.items)>>] ELSE t2
      t4 == IF n >= 4 THEN [t3 EXCEPT !.totals = <<SaleTotals(b, t3.items[1])>>]
            ELSE t3
  IN  IF n >= 4 /\ b.items # <<>>
      THEN [t4 EXCEPT !.pkg =
              <<[id  |-> nextPkgId,
                 row |-> NewPackageRow([clientId |-> b.clientId, serviceId |-> Null,
                                        items |-> b.items],
                                       t.saleId, t4.totals[1].total)]>>]
      ELSE t4

\* the transaction after the first n of them
PutWrites(t, b, n) ==
  LET t1 == IF n >= 1 THEN [t EXCEPT !.row = <<UpdatedHeader(b)>>] ELSE t
      t2 == IF n >= 2 THEN [t1 EXCEPT !.items = << <<>> >>] ELSE t1
      t3 == IF n >= 3 THEN [t2 EXCEPT !.items = <<ItemRows(b.items)>>] ELSE t2
  IN  IF n >= 4 THEN [t3 EXCEPT !.totals = <<SaleTotals(b, t3.items[1])>>] ELSE t3

NotIterable == "items is not iterable"

\* without items in the request the loop over them throws
PutWrite(r) ==
  /\ pc[r] = "putWrite"
  /\ ~SaleLockedByOther(r, txn[r].saleId)
  /\ UNCHANGED seqs
  /\ IF req[r].body.itemsGiven
     THEN /\ txn' = [txn EXCEPT ![r] = PutWrites(txn[r], req[r].body, 4)]
          /\ Goto(r, "commit")
          /\ UNCHANGED db
     ELSE OnError(r, PutWrites(txn[r], req[r].body, 2), NotIterable)

\* statement n+1 of them fails, after the first n were executed
PutWriteFail(r, n) ==
  /\ pc[r] = "putWrite"
  /\ n \in 0 .. 3
  /\ n >= 3 => req[r].body.itemsGiven
  /\ ~SaleLockedByOther(r, txn[r].saleId)
  /\ OnError(r, PutWrites(txn[r], req[r].body, n), DatastoreError)
  /\ UNCHANGED seqs

PutCommit(r) ==
  /\ pc[r] = "commit"
  /\ req[r].kind = "PUT"
  /\ Commit(txn[r])
  /\ txn' = [txn EXCEPT ![r] = NoTxn]
  /\ ReplySale(r, 200, txn[r].saleId, "")
  /\ UNCHANGED seqs

\* ------------------------------------------------------------------------
\* POST /api/sales/confirm and POST /api/sales/cancel
\* ------------------------------------------------------------------------
CommissionsOf(id) ==
  {[sale |-> id, item |-> i, status |-> "active"] :
     i \in 1 .. Len(sales[id].items)}

ConfirmSale(r, u, id) ==
  /\ Free(r)
  /\ UNCHANGED <<seqs, txn, packages, consumptions>>
  /\ IF ~Authenticated(u)
     THEN Reply(r, 401, AuthFailed) /\ UNCHANGED <<sales, commissions>>
     ELSE IF id \notin DOMAIN sales
     THEN Reply(r, 404, "Venda nao encontrada") /\ UNCHANGED <<sales, commissions>>
     ELSE IF sales[id].status # "aberta"
     THEN Reply(r, 400, "InvalidState") /\ UNCHANGED <<sales, commissions>>
     ELSE /\ ~SaleLockedByOther(r, id)
          /\ sales' = [sales EXCEPT ![id].status = "confirmada"]
          /\ commissions' = commissions \cup CommissionsOf(id)
          /\ ReplySale(r, 200, id, "")

\* Reversed leaving the commission active
Unreversed(c) == c

Reversed(c) == [c EXCEPT !.status = "reversed"]

\* PackagesReversed giving nothing back
PackagesKept(id) == packages

\* reverseConsumption: give back what the sale consumed, once
PackagesReversed(id) ==
  [p \in DOMAIN packages |->
     LET back == {c \in consumptions : c.sale = id /\ c.pkg = p /\ ~c.reversed}
     IN  IF back = {} THEN packages[p]
         ELSE LET c == CHOOSE c \in back : TRUE
              IN  [packages[p] EXCEPT
                     !.consumedQuantity  = @ - c.qty,
                     !.availableQuantity = @ + c.qty]]

ConsumptionsReversed(id) ==
  {IF c.sale = id THEN [c EXCEPT !.reversed = TRUE] ELSE c : c \in consumptions}

CancelSale(r, u, id) ==
  /\ Free(r)
  /\ UNCHANGED <<seqs, txn>>
  /\ IF ~Authenticated(u)
     THEN Reply(r, 401, AuthFailed) /\ UNCHANGED db
     ELSE IF id \notin DOMAIN sales
     THEN Reply(r, 404, "Venda nao encontrada") /\ UNCHANGED db
     ELSE IF sales[id].status = "cancelada"
     THEN Reply(r, 400, "InvalidState") /\ UNCHANGED db
     ELSE /\ ~SaleLockedByOther(r, id)
          /\ \A c \in consumptions : c.sale = id => ~PkgLockedByOther(r, c.pkg)
          /\ sales' = [sales EXCEPT ![id].status = "cancelada"]
          /\ IF sales[id].status = "confirmada"
             THEN /\ commissions' =
                       {IF c.sale = id THEN Reversed(c) ELSE c : c \in commissions}
                  /\ packages' = PackagesReversed(id)
                  /\ consumptions' = ConsumptionsReversed(id)
             ELSE UNCHANGED <<commissions, packages, consumptions>>
          /\ ReplySale(r, 200, id, "")

\* ------------------------------------------------------------------------
\* Requests
\* ------------------------------------------------------------------------
Item(q, p, cs, dt, dv) ==
  [quantity |-> q, unitPrice |-> p, calculatedSubtotal |-> cs,
   discountType |-> dt, discountValue |-> dv]

Plain(q) == Item(q, 10, <<>>, Missing, 0)

PostBody(c, pm, given, its, gt, gv, st, sv, pk) ==
  [clientId |-> c, paymentMethod |-> pm, itemsGiven |-> given, items |-> its,
   generalDiscountType |-> gt, generalDiscountValue |-> gv,
   saleType |-> st, serviceId |-> sv, packageId |-> pk]

PutBody(id, c, pm, given, its, gt, gv) ==
  [id |-> id, clientId |-> c, paymentMethod |-> pm, itemsGiven |-> given,
   items |-> its, generalDiscountType |-> gt, generalDiscountValue |-> gv]

SaleTypes == {"01", "02", "03"}

\* one create or update request is in flight at a time, in slot Editor,
\* interleaved with the confirm and cancel requests of slot Clerk
Editor == 1
Clerk  == 2

\* sale type, service and package of a create request: every sale type, with
\* and without the service or the package it needs
Targets == {<<"01", Missing, 0>>, <<"02", "s1", 0>>, <<"02", Missing, 0>>,
            <<"03", Missing, 0>>}
           \cup {<<"03", Missing, pk>> : pk \in 1 .. MaxPkgs}

\* create requests: each required field present or absent, the items absent,
\* empty or one item with a quantity on either side of zero
CreateBodies ==
  {PostBody(c, pm, given, its, Missing, 0, tg[1], tg[2], tg[3]) :
     c \in {Missing, "c1"}, pm \in {Missing, "pix"}, given \in BOOLEAN,
     its \in {<<>>} \cup {<<Plain(q)>> : q \in {-1, 0, 1, 2}}, tg \in Targets}

\* the create requests of the general specification
PostBodies ==
  {b \in CreateBodies : b.itemsGiven /\ b.items # <<>> /\ b.items[1].quantity # 0
                        /\ b.clientId # Missing /\ b.paymentMethod # Missing}
  \cup {PostBody(Missing, "pix", TRUE, <<Plain(1)>>, Missing, 0, "01", Missing, 0)}

PutBodies ==
  {PutBody(id, "c1", "pix", TRUE, its, Missing, 0) :
     id \in 0 .. MaxEdited, its \in {<<Plain(2)>>, <<>>}}
  \cup {PutBody(id, "c1", "pix", FALSE, <<>>, Missing, 0) : id \in 1 .. MaxEdited}

\* ------------------------------------------------------------------------
\* Specifications
\* ------------------------------------------------------------------------
Init ==
  /\ sales = <<>>
  /\ packages = <<>>
  /\ consumptions = {}
  /\ commissions = {}
  /\ nextSaleId = 1
  /\ nextPkgId = 1
  /\ pc = [r \in Reqs |-> "idle"]
  /\ req = [r \in Reqs |-> NoReq]
  /\ txn = [r \in Reqs |-> NoTxn]
  /\ resp = [r \in Reqs |-> NoResp]
  /\ form = NoForm
  /\ quote = NoQuote
  /\ NoClients

SaleIdLeft == nextSaleId <= MaxSales
EditedIdLeft == nextSaleId <= MaxEdited

\* every operation, every sale type
Next ==
  \/ \E u \in {"ana", NoUser}, b \in PostBodies :
       SaleIdLeft /\ PostBegin(Editor, u, b)
  \/ \E b \in PostBodies, n \in 0 .. 2 :
       SaleIdLeft /\ PostBeginFail(Editor, "ana", b, n)
  \/ PostLedger(Editor)
  \/ PostCommit(Editor)
  \/ \E u \in Callers, b \in PutBodies : PutCheck(Editor, u, b)
  \/ PutWrite(Editor)
  \/ \E n \in 0 .. 3 : PutWriteFail(Editor, n)
  \/ PutCommit(Editor)
  \/ TxnFail(Editor)
  \/ \E id \in 1 .. MaxSales : ConfirmSale(Clerk, "ana", id)
  \/ \E id \in 1 .. MaxSales : CancelSale(Clerk, "ana", id)

Spec == Init /\ [][Next]_vars

\* sale creation alone: every create request, with and without a failing
\* statement
NextCreate ==
  \/ \E b \in CreateBodies : SaleIdLeft /\ PostBegin(Editor, "ana", b)
  \/ \E b \in PostBodies : SaleIdLeft /\ PostBegin(Editor, NoUser, b)
  \/ \E b \in CreateBodies, n \in 0 .. 2 :
       SaleIdLeft /\ PostBeginFail(Editor, "ana", b, n)
  \/ PostLedger(Editor)
  \/ PostCommit(Editor)
  \/ TxnFail(Editor)

SpecCreate == Init /\ [][NextCreate]_vars

\* concurrent consumption: a package of K credits, sold by sale 1, and N > K
\* requests that each consume one credit of it, in any interleaving
PackageSaleOf(k) ==
  PostBody("c1", "pix", TRUE, <<Plain(k)>>, Missing, 0, "02", "s1", 0)

ConsumeOne ==
  PostBody("c1", "pix", TRUE, <<Plain(1)>>, Missing, 0, "03", Missing, 1)

SoldSale(k) ==
  WrittenSale(PostWrites(BeginTxn(0, TRUE), 1, "ana", PackageSaleOf(k), 3), <<>>)

InitConsume ==
  \E k \in 1 .. MaxK, n \in 2 .. MaxK + 1 :
    /\ k < n
    /\ sales = (1 :> SoldSale(k))
    /\ packages = (1 :> NewPackageRow(PackageSaleOf(k), 1, SoldSale(k).total))
    /\ consumptions = {}
    /\ commissions = {}
    /\ nextSaleId = 2
    /\ nextPkgId = 2
    /\ pc = [r \in Reqs |-> IF r <= n THEN "idle" ELSE "off"]
    /\ req = [r \in Reqs |-> NoReq]
    /\ txn = [r \in Reqs |-> NoTxn]
    /\ resp = [r \in Reqs |-> NoResp]
    /\ form = NoForm
    /\ quote = NoQuote
    /\ NoClients

NextConsume ==
  \/ \E r \in Reqs : pc[r] = "idle" /\ PostBegin(r, "ana", ConsumeOne)
  \/ \E r \in Reqs : PostLedger(r)
  \/ \E r \in Reqs : PostCommit(r)

SpecConsume == InitConsume /\ [][NextConsume]_vars

\* amounts: sales of products whose items and general discount take every
\* discount kind, below and above the amount they apply to
MoneyItems ==
  {Item(1, 10, <<>>, Missing, 0),
   Item(2, 10, <<>>, "percentage", 50),
   Item(2, 10, <<>>, "percentage", 150),
   Item(1, 10, <<>>, "fixed", 5),
   Item(1, 10, <<>>, "fixed", 30),
   Item(1, 10, <<30>>, "percentage", 50)}

MoneyLists ==
  {<<it>> : it \in MoneyItems}
  \cup {<<Item(1, 10, <<>>, Missing, 0), it>> :
          it \in {Item(2, 10, <<>>, "percentage", 50), Item(1, 10, <<>>, "fixed", 30)}}

GeneralDiscounts ==
  {<<Missing, 0>>, <<"percentage", 50>>, <<"percentage", 150>>, <<"fixed", 30>>}

MoneyPosts ==
  {PostBody("c1", "pix", TRUE, its, g[1], g[2], "01", Missing, 0) :
     its \in MoneyLists, g \in GeneralDiscounts}

MoneyPuts ==
  {PutBody(id, "c1", "pix", TRUE, its, g[1], g[2]) :
     id \in 1 .. MaxEdited, its \in MoneyLists, g \in GeneralDiscounts}

NextMoney ==
  \/ \E b \in MoneyPosts : EditedIdLeft /\ PostBegin(Editor, "ana", b)
  \/ PostLedger(Editor)
  \/ PostCommit(Editor)
  \/ \E b \in MoneyPuts : PutCheck(Editor, "ana", b)
  \/ PutWrite(Editor)
  \/ PutCommit(Editor)
  \/ TxnFail(Editor)

SpecMoney == Init /\ [][NextMoney]_vars

\* the life of a sale: product sales created, updated by every caller,
\* confirmed and cancelled, with and without a failing statement
LifePosts ==
  {PostBody("c1", "pix", TRUE, <<Plain(1)>>, Missing, 0, "01", Missing, 0)}

NextLife ==
  \/ \E u \in {"ana", "bob"}, b \in LifePosts :
       EditedIdLeft /\ PostBegin(Editor, u, b)
  \/ PostLedger(Editor)
  \/ PostCommit(Editor)
  \/ \E u \in Callers, b \in PutBodies : PutCheck(Editor, u, b)
  \/ PutWrite(Editor)
  \/ \E n \in 0 .. 3 : PutWriteFail(Editor, n)
  \/ PutCommit(Editor)
  \/ TxnFail(Editor)
  \/ \E id \in 1 .. MaxEdited : ConfirmSale(Clerk, "ana", id)
  \/ \E id \in 1 .. MaxEdited : CancelSale(Clerk, "ana", id)

SpecLife == Init /\ [][NextLife]_vars

\* package sales: one or two items, with and without item and general
\* discounts, with and without a failing statement
PackageLists ==
  {<<Item(10, 50, <<>>, Missing, 0)>>,
   <<Item(2, 10, <<>>, "percentage", 50)>>,
   <<Item(2, 10, <<>>, Missing, 0), Item(1, 10, <<>>, "fixed", 5)>>}

PackagePosts ==
  {PostBody("c1", "pix", TRUE, its, g[1], g[2], "02", "s1", 0) :
     its \in PackageLists, g \in {<<Missing, 0>>, <<"percentage", 50>>, <<"fixed", 10>>}}

NextPackage ==
  \/ \E b \in PackagePosts : SaleIdLeft /\ PostBegin(Editor, "ana", b)
  \/ PostLedger(Editor)
  \/ PostCommit(Editor)
  \/ TxnFail(Editor)

SpecPackage == Init /\ [][NextPackage]_vars

\* the ledger: a package of 10 credits, sold by sale 1, and consumptions of
\* it one after the other, below and above the balance
ScenarioSale == PackageSaleOf(10)

ConsumeQuantities == 1 .. 8

ConsumePosts ==
  {PostBody("c1", "pix", TRUE, <<Plain(q)>>, Missing, 0, "03", Missing, 1) :
     q \in ConsumeQuantities}

InitLedger ==
  /\ sales = (1 :> SoldSale(10))
  /\ packages = (1 :> NewPackageRow(ScenarioSale, 1, SoldSale(10).total))
  /\ consumptions = {}
  /\ commissions = {}
  /\ nextSaleId = 2
  /\ nextPkgId = 2
  /\ pc = [r \in Reqs |-> "idle"]
  /\ req = [r \in Reqs |-> NoReq]
  /\ txn = [r \in Reqs |-> NoTxn]
  /\ resp = [r \in Reqs |-> NoResp]
  /\ form = NoForm
  /\ quote = NoQuote
  /\ NoClients

ConsumeIdLeft == nextSaleId <= MaxSales + 1

NextLedger ==
  \/ \E b \in ConsumePosts : ConsumeIdLeft /\ PostBegin(Editor, "ana", b)
  \/ PostLedger(Editor)
  \/ PostCommit(Editor)
  \/ TxnFail(Editor)

SpecLedger == InitLedger /\ [][NextLedger]_vars

\* cancellation of consumptions: the package of 10 credits, consumptions of
\* it, and confirm and cancel requests on them in any order
RefundSales == 2 .. MaxSales + 1

NextRefund ==
  \/ \E b \in ConsumePosts : ConsumeIdLeft /\ PostBegin(Editor, "ana", b)
  \/ PostLedger(Editor)
  \/ PostCommit(Editor)
  \/ \E id \in RefundSales : ConfirmSale(Clerk, "ana", id)
  \/ \E id \in RefundSales : CancelSale(Clerk, "ana", id)

SpecRefund == InitLedger /\ [][NextRefund]_vars

\* consumptions whose request carries discounts: the package of 10 credits
\* and consumptions of one credit with every kind of item and general
\* discount
DiscountedPosts ==
  {PostBody("c1", "pix", TRUE, <<it>>, g[1], g[2], "03", Missing, 1) :
     it \in {Plain(1), Item(1, 10, <<>>, "fixed", 5),
             Item(1, 10, <<>>, "percentage", 50)},
     g \in {<<Missing, 0>>, <<"fixed", 5>>}}

NextDiscounted ==
  \/ \E b \in DiscountedPosts : ConsumeIdLeft /\ PostBegin(Editor, "ana", b)
  \/ PostLedger(Editor)
  \/ PostCommit(Editor)
  \/ TxnFail(Editor)

SpecDiscounted == InitLedger /\ [][NextDiscounted]_vars

\* ------------------------------------------------------------------------
\* Sales page: the price of the form
\* ------------------------------------------------------------------------
PriceRange(st, min, max, price) ==
  [saleType |-> st, minQuantity |-> min, maxQuantity |-> max, unitPrice |-> price]

RECURSIVE InsertByMin(_, _)
InsertByMin(r, ranges) ==
  IF ranges = <<>> THEN <<r>>
  ELSE IF r.minQuantity < Head(ranges).minQuantity THEN <<r>> \o ranges
  ELSE <<Head(ranges)>> \o InsertByMin(r, Tail(ranges))

\* .sort((a, b) => a.minQuantity - b.minQuantity), which is stable
RECURSIVE SortByMin(_)
SortByMin(ranges) ==
  IF ranges = <<>> THEN <<>>
  ELSE InsertByMin(ranges[Len(ranges)],
                   SortByMin(SubSeq(ranges, 1, Len(ranges) - 1)))

RangesOf(ranges, st) == SortByMin(SelectSeq(ranges, LAMBDA r : r.saleType = st))

\* ApplicableRanges with no fallback to the ranges of sale type 01
ApplicableRangesOwnType(ranges, saleType) == RangesOf(ranges, saleType)

\* the ranges of the form's sale type or, when it has none, of sale type 01
ApplicableRanges(ranges, saleType) ==
  IF RangesOf(ranges, saleType) = <<>> THEN RangesOf(ranges, "01")
  ELSE RangesOf(ranges, saleType)

ServiceNames == {"Atraso", "Reclamacao", "RECLAMACAO", "Reclamação"}

\* serviceName.toLowerCase()
ToLowerCase(name) ==
  CASE name = "Atraso"     -> "atraso"
    [] name = "Reclamacao" -> "reclamacao"
    [] name = "RECLAMACAO" -> "reclamacao"
    [] name = "Reclamação" -> "reclamação"

\* .includes("reclamacao"), on the lower-case names
IsReclamacao(serviceName) == ToLowerCase(serviceName) \in {"reclamacao"}

\* x || d
OrElse(x, d) == IF x = 0 THEN d ELSE x

\* ranges[i]?.unitPrice || d
UnitPriceOr(ranges, i, d) ==
  IF i <= Len(ranges) THEN OrElse(ranges[i].unitPrice, d) ELSE d

Contains(r, qty) ==
  qty >= r.minQuantity /\ (r.maxQuantity = <<>> \/ qty <= r.maxQuantity[1])

\* ranges.find(...): the first range that contains qty, if any
FindRange(ranges, qty) ==
  LET hits == {i \in 1 .. Len(ranges) : Contains(ranges[i], qty)}
  IN  IF hits = {} THEN <<>>
      ELSE <<ranges[CHOOSE i \in hits : \A j \in hits : i <= j]>>

calculateProgressivePrice(qty, serviceName, ranges, saleType) ==
  LET applicableRanges == ApplicableRanges(ranges, saleType)
  IN  IF applicableRanges = <<>> THEN 0
      ELSE IF IsReclamacao(serviceName)
      THEN IF qty <= 10 THEN qty * UnitPriceOr(applicableRanges, 1, 40)
           ELSE (qty - 10) * UnitPriceOr(applicableRanges, 2, 15)
                  + 10 * UnitPriceOr(applicableRanges, 1, 40)
      ELSE LET range == FindRange(applicableRanges, qty)
           IN  IF range = <<>> THEN 0 ELSE qty * range[1].unitPrice

\* the tier definitions of the services
TierSets ==
  {<<PriceRange("01", 1, <<10>>, 40), PriceRange("01", 11, <<>>, 15)>>,
   <<PriceRange("01", 1, <<5>>, 40), PriceRange("01", 6, <<>>, 15)>>,
   <<PriceRange("01", 11, <<>>, 15), PriceRange("01", 1, <<10>>, 40)>>,
   <<PriceRange("02", 11, <<>>, 10), PriceRange("01", 1, <<>>, 50),
     PriceRange("02", 1, <<10>>, 30)>>,
   <<PriceRange("02", 2, <<3>>, 20)>>,
   <<>>}

Quantities == {1, 3, 5, 6, 10, 11, 15}

Forms ==
  [saleType : SaleTypes, quantity : Quantities, serviceName : ServiceNames,
   priceRanges : TierSets]

InitPrice ==
  /\ sales = <<>>
  /\ packages = <<>>
  /\ consumptions = {}
  /\ commissions = {}
  /\ nextSaleId = 1
  /\ nextPkgId = 1
  /\ pc = [r \in Reqs |-> "idle"]
  /\ req = [r \in Reqs |-> NoReq]
  /\ txn = [r \in Reqs |-> NoTxn]
  /\ resp = [r \in Reqs |-> NoResp]
  /\ form \in Forms
  /\ quote = NoQuote
  /\ NoClients

\* the page computes the subtotal of the form
CalculatePrice ==
  /\ quote = NoQuote
  /\ quote' = <<calculateProgressivePrice(form.quantity, form.serviceName,
                                          form.priceRanges, form.saleType)>>
  /\ UNCHANGED <<form, server, registry>>

NextPrice == CalculatePrice

SpecPrice == InitPrice /\ [][NextPrice]_vars

\* ------------------------------------------------------------------------
\* GET /api/sales
\* ------------------------------------------------------------------------
\* the rows of the first SELECT with no WHERE clause for anybody
SelectedAll(u) == DOMAIN sales

\* the rows of the first SELECT: all for an admin, else the caller's own
Selected(u) ==
  IF IsAdmin(u) THEN DOMAIN sales
  ELSE {id \in DOMAIN sales : sales[id].attendant = u}

\* status of the catch of GET
GetCatchStatus(message) == IF message = AuthFailed THEN 401 ELSE 500

\* authentication and the SELECT of the sales
GetSelect(r, u) ==
  /\ Free(r)
  /\ UNCHANGED <<db, seqs, txn>>
  /\ IF ~Authenticated(u)
     THEN Reply(r, GetCatchStatus(AuthFailed), AuthFailed)
     ELSE Enter(r, "getItems",
                [kind |-> "GET", caller |-> u,
                 rows |-> [id \in Selected(u) |-> sales[id]]])

\* one element of the response: the selected row with the items read now
FormattedSale(id, row) ==
  [id |-> id, attendantId |-> row.attendant, status |-> row.status,
   subtotal |-> row.subtotal, totalDiscount |-> row.totalDiscount,
   total |-> row.total, items |-> sales[id].items]

\* the SELECTs of the items of each selected sale, and the response
GetItems(r) ==
  /\ pc[r] = "getItems"
  /\ pc' = [pc EXCEPT ![r] = "done"]
  /\ req' = [req EXCEPT ![r] = NoReq]
  /\ resp' = [resp EXCEPT ![r] =
               [status |-> 200, error |-> "", saleId |-> 0, saleType |-> "",
                sales |-> {FormattedSale(id, req[r].rows[id]) :
                             id \in DOMAIN req[r].rows}]]
  /\ UNCHANGED <<db, seqs, txn, page, registry>>

\* the first SELECT or one of the items fails
GetFail(r) ==
  /\ pc[r] = "getItems"
  /\ Reply(r, GetCatchStatus(DatastoreError), DatastoreError)
  /\ UNCHANGED <<db, seqs, txn>>

\* listing: sales of two attendants are created while every caller lists
NextList ==
  \/ \E u \in {"ana", "bob"}, b \in LifePosts :
       SaleIdLeft /\ PostBegin(Editor, u, b)
  \/ PostLedger(Editor)
  \/ PostCommit(Editor)
  \/ \E u \in Callers : GetSelect(Clerk, u)
  \/ GetItems(Clerk)
  \/ GetFail(Clerk)

SpecList == Init /\ [][NextList]_vars

\* ------------------------------------------------------------------------
\* Requests without a valid token, on every route
\* ------------------------------------------------------------------------
NoToken == "Token de autenticacao nao informado"
AdminAuthFailed == "Falha na autenticacao do administrador"

\* what the request carries instead of a valid token
BadTokens == {"absent", "invalid"}

UserRoutes ==
  {"GET sales", "POST sales", "PUT sales", "GET clients", "POST clients",
   "GET commissions", "GET sales report", "GET dashboard metrics"}

AdminRoutes ==
  {"PUT clients", "DELETE clients", "GET users", "POST users", "DELETE users"}

Routes == UserRoutes \cup AdminRoutes

\* authenticateUser / authenticateAdmin of the route: the error thrown.
\* Without a token it is thrown before the try block; any other failure is
\* rethrown by its catch
AuthError(route, token) ==
  IF token = "absent" THEN NoToken
  ELSE IF route \in AdminRoutes THEN AdminAuthFailed
  ELSE AuthFailed

\* message.includes(needle), for the messages and needles of the handlers
Includes(message, needle) ==
  CASE needle = "autenticacao" ->
         message \in {NoToken, AuthFailed, AdminAuthFailed}
    [] needle = "Token" -> message = NoToken
    [] needle = "autenticação" -> FALSE

\* the words the catch of the route looks for in the message
Needles(route) ==
  IF route = "GET commissions" THEN {"autenticacao", "Token"}
  ELSE IF route = "GET sales report" THEN {"autenticação"}
  ELSE {"autenticacao"}

\* the status of the catch of the route for any other message
OtherStatus(route) ==
  IF route \in {"GET sales", "GET clients", "GET users", "GET commissions",
                "GET sales report", "GET dashboard metrics"}
  THEN 500 ELSE 400

RouteCatchStatus(route, message) ==
  IF \E needle \in Needles(route) : Includes(message, needle) THEN 401
  ELSE OtherStatus(route)

\* a request with no valid token: authentication throws, the catch answers
Unauthenticated(r, route, token) ==
  /\ Free(r)
  /\ Reply(r, RouteCatchStatus(route, AuthError(route, token)),
           AuthError(route, token))
  /\ UNCHANGED <<db, seqs, txn>>

\* sales are created while requests without a valid token arrive on every
\* route
NextAuth ==
  \/ \E u \in {"ana", "bob"}, b \in LifePosts :
       SaleIdLeft /\ PostBegin(Editor, u, b)
  \/ PostLedger(Editor)
  \/ PostCommit(Editor)
  \/ \E route \in Routes, token \in BadTokens :
       Unauthenticated(Clerk, route, token)

SpecAuth == Init /\ [][NextAuth]_vars

\* updates next to the ledger: the package of 10 credits sold by sale 1,
\* consumptions of it, and updates of the package sale and of the
\* consumptions with other quantities
UpdatePosts ==
  {PostBody("c1", "pix", TRUE, <<Plain(q)>>, Missing, 0, "03", Missing, 1) :
     q \in {1, 3}}

UpdatePuts ==
  {PutBody(id, "c1", "pix", TRUE, its, Missing, 0) :
     id \in 1 .. MaxSales + 1,
     its \in {<<Plain(1)>>, <<Plain(20)>>, <<Plain(3), Plain(4)>>}}

NextUpdate ==
  \/ \E b \in UpdatePosts : ConsumeIdLeft /\ PostBegin(Editor, "ana", b)
  \/ PostLedger(Editor)
  \/ PostCommit(Editor)
  \/ \E b \in UpdatePuts : PutCheck(Editor, "ana", b)
  \/ PutWrite(Editor)
  \/ PutCommit(Editor)
  \/ TxnFail(Editor)

SpecUpdate == InitLedger /\ [][NextUpdate]_vars

\* priced sales: sales of a service whose tiers are [1-10]@40 and
\* [11-unbounded]@15, with the subtotal the page computes, with another one,
\* and with none
PricedService == "Atraso"

PricedTiers == <<PriceRange("01", 1, <<10>>, 40), PriceRange("01", 11, <<>>, 15)>>

PricedItems ==
  {Item(q[1], q[2], cs, Missing, 0) :
     q \in {<<3, 40>>, <<15, 15>>},
     cs \in {<<>>, <<30>>}
            \cup {<<calculateProgressivePrice(qq, PricedService, PricedTiers, "01")>> :
                    qq \in {3, 15}}}

PricedPosts ==
  {PostBody("c1", "pix", TRUE, <<it>>, Missing, 0, "01", Missing, 0) :
     it \in PricedItems}

NextPriced ==
  \/ \E b \in PricedPosts : SaleIdLeft /\ PostBegin(Editor, "ana", b)
  \/ PostLedger(Editor)
  \/ PostCommit(Editor)
  \/ TxnFail(Editor)

SpecPriced == Init /\ [][NextPriced]_vars

\* ------------------------------------------------------------------------
\* POST and PUT /api/clients
\* ------------------------------------------------------------------------
TaxIds ==
  {Missing, "529.982.247-25", "111.444.777-35", "111.111.111-11",
   "11.222.333/0001-81", "12345"}

\* cpfRegex.test(cpfCnpj) and cnpjRegex.test(cpfCnpj), on TaxIds
IsCpfFormat(t) == t \in {"529.982.247-25", "111.444.777-35", "111.111.111-11"}
IsCnpjFormat(t) == t \in {"11.222.333/0001-81"}

\* the check digits, on TaxIds
isValidCPF(t) == t \in {"529.982.247-25", "111.444.777-35"}
isValidCNPJ(t) == t \in {"11.222.333/0001-81"}

\* the validation of a tax-id that is given: the error, or ""
TaxIdError(t) ==
  IF ~IsCpfFormat(t) /\ ~IsCnpjFormat(t) THEN "CPF/CNPJ invalido"
  ELSE IF IsCpfFormat(t) /\ ~isValidCPF(t) THEN "CPF invalido"
  ELSE IF IsCnpjFormat(t) /\ ~isValidCNPJ(t) THEN "CNPJ invalido"
  ELSE ""

\* SELECT id FROM clients WHERE cpf_cnpj = t AND id != except
ClientsWithTaxId(t, except) ==
  {c \in DOMAIN clients : clients[c].cpfCnpj = t /\ c # except}

ClientBody(id, name, cpfCnpj) == [id |-> id, name |-> name, cpfCnpj |-> cpfCnpj]

\* the validations of POST and PUT from the name on, with the SELECT of the
\* tax-id: <<status, error>> of the first that fails, or <<0, "">>
ClientValidation(b) ==
  IF b.name = Missing THEN <<400, "Nome do cliente e obrigatorio">>
  ELSE IF b.cpfCnpj = Missing THEN <<0, "">>
  ELSE IF TaxIdError(b.cpfCnpj) # "" THEN <<400, TaxIdError(b.cpfCnpj)>>
  ELSE IF ClientsWithTaxId(b.cpfCnpj, b.id) # {}
       THEN <<409, "Ja existe um cliente com este CPF/CNPJ">>
  ELSE <<0, "">>

\* the unique index on cpf_cnpj, where the schema has one, refuses the row
UniqueViolation == "duplicate key value violates unique constraint"

Refused(b) ==
  taxIdUnique /\ b.cpfCnpj # Missing /\ ClientsWithTaxId(b.cpfCnpj, b.id) # {}

ClientRow(b) == [name |-> b.name, cpfCnpj |-> OrNull(b.cpfCnpj)]

\* the response of a client request that has written
ClientReply(r, status) ==
  /\ pc' = [pc EXCEPT ![r] = "done"]
  /\ req' = [req EXCEPT ![r] = NoReq]
  /\ resp' = [resp EXCEPT ![r] =
               [status |-> status, error |-> "", saleId |-> 0, saleType |-> ""]]
  /\ UNCHANGED <<page, taxIdUnique>>

\* POST up to its INSERT: authentication, validations, SELECT of the tax-id
ClientPostCheck(r, u, b) ==
  /\ Free(r)
  /\ b.id = 0
  /\ UNCHANGED <<db, seqs, txn>>
  /\ IF ~Authenticated(u) THEN Reply(r, CatchStatus(AuthFailed), AuthFailed)
     ELSE IF ClientValidation(b)[1] # 0
     THEN Reply(r, ClientValidation(b)[1], ClientValidation(b)[2])
     ELSE Enter(r, "clientInsert", [kind |-> "POST clients", caller |-> u, body |-> b])

\* INSERT INTO clients, and the response
ClientPostInsert(r) ==
  /\ pc[r] = "clientInsert"
  /\ UNCHANGED <<db, seqs, txn>>
  /\ IF Refused(req[r].body)
     THEN Reply(r, CatchStatus(UniqueViolation), UniqueViolation)
     ELSE /\ clients' = (nextClientId :> ClientRow(req[r].body)) @@ clients
          /\ nextClientId' = nextClientId + 1
          /\ ClientReply(r, 201)

\* PUT up to its UPDATE: authentication of an admin, validations, SELECT of
\* the tax-id among the other clients
ClientPutCheck(r, u, b) ==
  /\ Free(r)
  /\ UNCHANGED <<db, seqs, txn>>
  /\ IF ~IsAdmin(u) THEN Reply(r, CatchStatus(AdminAuthFailed), AdminAuthFailed)
     ELSE IF b.id = 0 THEN Reply(r, 400, "ID do cliente e obrigatorio")
     ELSE IF ClientValidation(b)[1] # 0
     THEN Reply(r, ClientValidation(b)[1], ClientValidation(b)[2])
     ELSE Enter(r, "clientUpdate", [kind |-> "PUT clients", caller |-> u, body |-> b])

\* UPDATE clients ... WHERE id, and the response
ClientPutUpdate(r) ==
  /\ pc[r] = "clientUpdate"
  /\ UNCHANGED <<db, seqs, txn>>
  /\ IF req[r].body.id \notin DOMAIN clients
     THEN Reply(r, 404, "Cliente nao encontrado")
     ELSE IF Refused(req[r].body)
     THEN Reply(r, CatchStatus(UniqueViolation), UniqueViolation)
     ELSE /\ clients' = [clients EXCEPT ![req[r].body.id] = ClientRow(req[r].body)]
          /\ UNCHANGED nextClientId
          /\ ClientReply(r, 200)

\* two requests on the clients at a time, in any interleaving, on a schema
\* with and without a unique index on the tax-id
ClientSlots == {Editor, Clerk}

ClientPosts == {ClientBody(0, n, t) : n \in {Missing, "Ana"}, t \in TaxIds}

ClientPuts ==
  {ClientBody(id, "Ana", t) :
     id \in 0 .. MaxClients, t \in {Missing, "529.982.247-25", "111.444.777-35"}}

InitClients ==
  /\ sales = <<>>
  /\ packages = <<>>
  /\ consumptions = {}
  /\ commissions = {}
  /\ nextSaleId = 1
  /\ nextPkgId = 1
  /\ pc = [r \in Reqs |-> "idle"]
  /\ req = [r \in Reqs |-> NoReq]
  /\ txn = [r \in Reqs |-> NoTxn]
  /\ resp = [r \in Reqs |-> NoResp]
  /\ form = NoForm
  /\ quote = NoQuote
  /\ clients = <<>>
  /\ nextClientId = 1
  /\ taxIdUnique \in BOOLEAN

ClientIdLeft == nextClientId <= MaxClients

NextClients ==
  \/ \E r \in ClientSlots, u \in {"ana", NoUser}, b \in ClientPosts :
       ClientIdLeft /\ ClientPostCheck(r, u, b)
  \/ \E r \in ClientSlots : ClientPostInsert(r)
  \/ \E r \in ClientSlots, u \in {"root", "bob"}, b \in ClientPuts :
       ClientPutCheck(r, u, b)
  \/ \E r \in ClientSlots : ClientPutUpdate(r)

SpecClients == InitClients /\ [][NextClients]_vars

\* the origin of packages: package sales and product sales are created,
\* updated, confirmed and cancelled in any order
OriginPosts ==
  {PostBody("c1", "pix", TRUE, <<Plain(1)>>, Missing, 0, tg[1], tg[2], 0) :
     tg \in {<<"02", "s1">>, <<"01", Missing>>}}

OriginPuts ==
  {PutBody(id, "c1", "pix", TRUE, <<Plain(2)>>, Missing, 0) : id \in 1 .. MaxSales}

NextOrigin ==
  \/ \E b \in OriginPosts : SaleIdLeft /\ PostBegin(Editor, "ana", b)
  \/ PostLedger(Editor)
  \/ PostCommit(Editor)
  \/ \E b \in OriginPuts : PutCheck(Editor, "ana", b)
  \/ PutWrite(Editor)
  \/ PutCommit(Editor)
  \/ TxnFail(Editor)
  \/ \E id \in 1 .. MaxSales : ConfirmSale(Clerk, "ana", id)
  \/ \E id \in 1 .. MaxSales : CancelSale(Clerk, "ana", id)

SpecOrigin == Init /\ [][NextOrigin]_vars

\* the paths of the two handlers after BEGIN: sales of every type are
\* created and updated, with and without a failing statement, a refused
\* consumption or a request without items
TxnPosts ==
  {PostBody("c1", "pix", TRUE, <<Plain(q)>>, Missing, 0, tg[1], tg[2], tg[3]) :
     q \in {1, 2},
     tg \in {<<"01", Missing, 0>>, <<"02", "s1", 0>>, <<"03", Missing, 1>>}}

TxnPuts ==
  {PutBody(id, "c1", "pix", given, <<Plain(2)>>, Missing, 0) :
     id \in 1 .. MaxSales, given \in BOOLEAN}

NextTxn ==
  \/ \E b \in TxnPosts : SaleIdLeft /\ PostBegin(Editor, "ana", b)
  \/ \E b \in TxnPosts, n \in 0 .. 2 :
       SaleIdLeft /\ PostBeginFail(Editor, "ana", b, n)
  \/ PostLedger(Editor)
  \/ PostCommit(Editor)
  \/ \E b \in TxnPuts : PutCheck(Editor, "ana", b)
  \/ PutWrite(Editor)
  \/ \E n \in 0 .. 3 : PutWriteFail(Editor, n)
  \/ PutCommit(Editor)
  \/ TxnFail(Editor)

SpecTxn == Init /\ [][NextTxn]_vars

\* ------------------------------------------------------------------------
\* Properties
\* ------------------------------------------------------------------------

\* C1: every package has availableQuantity = initialQuantity -
\* consumedQuantity and availableQuantity >= 0, after any sequence of
\* operations.
C1_PackageBalance ==
  \A p \in DOMAIN packages :
    /\ packages[p].availableQuantity =
         packages[p].initialQuantity - packages[p].consumedQuantity
    /\ packages[p].availableQuantity >= 0

\* the errors of a sale creation that fails after BEGIN
TxnErrors == {DatastoreError, "InsufficientBalance", "NotFound"}

\* C3: a sale creation that fails after BEGIN answers with an error and
\* leaves no committed row changed (no sale, item, package or balance); the
\* committed rows change only in the step that answers 201.
C3_FailedCreateLeavesNothing ==
  [][/\ (pc'[Editor] = "done" /\ resp'[Editor].error \in TxnErrors)
          => (resp'[Editor].status >= 400 /\ UNCHANGED db)
     /\ ~(UNCHANGED db)
          => (pc'[Editor] = "done" /\ resp'[Editor].status = 201)]_vars

\* a consumption was refused after the sale and its items had been written
C3_Witness ==
  /\ pc[Editor] = "done"
  /\ resp[Editor].error = "InsufficientBalance"
  /\ nextSaleId > 2

\* the create requests C9 is about
C9Case(b) ==
  \/ b.clientId = Missing
  \/ b.paymentMethod = Missing
  \/ ~b.itemsGiven
  \/ b.items = <<>>
  \/ (b.saleType = "03" /\ b.packageId = 0)

InvalidCreateBodies == {b \in CreateBodies : C9Case(b)}

\* C9: a create request of an authenticated caller with no clientId, no
\* paymentMethod, no or empty items, or sale type 03 without packageId is
\* answered 400 and writes nothing: no committed row changes, no transaction
\* is opened, no id is drawn.
C9_InvalidCreateRejected ==
  [][\A b \in InvalidCreateBodies :
       PostBegin(Editor, "ana", b)
         => (/\ pc'[Editor] = "done"
             /\ resp'[Editor].status = 400
             /\ UNCHANGED <<db, seqs, txn>>)]_vars

\* a package consumption without packageId has been rejected
C9_Witness ==
  /\ pc[Editor] = "done"
  /\ resp[Editor].status = 400
  /\ resp[Editor].error = "Package ID obrigatorio para consumo de pacote"

\* C10: a created (201) sale of type 02 has a package whose originating sale
\* it is.
C10_PackageSaleHasPackage ==
  \A r \in Reqs :
    (pc[r] = "done" /\ resp[r].status = 201 /\ resp[r].saleType = "02")
      => \E p \in DOMAIN packages : packages[p].saleId = resp[r].saleId

RECURSIVE SumQty(_)
SumQty(cs) ==
  IF cs = {} THEN 0
  ELSE LET c == CHOOSE c \in cs : TRUE IN c.qty + SumQty(cs \ {c})

Answered(status, error) ==
  {r \in Reqs : pc[r] = "done" /\ resp[r].status = status /\ resp[r].error = error}

\* C2: N concurrent consumptions of one credit from a package of K < N
\* credits: the accepted quantities never exceed initialQuantity, and once
\* all have answered there are exactly K successes, N-K InsufficientBalance
\* failures and availableQuantity is 0.
C2_ConcurrentConsume ==
  LET issued == {r \in Reqs : pc[r] # "off"}
      k      == packages[1].initialQuantity
  IN  /\ SumQty(consumptions) <= k
      /\ Cardinality(Answered(201, "")) <= k
      /\ (\A r \in issued : pc[r] = "done")
           => /\ Cardinality(Answered(201, "")) = k
              /\ Cardinality(Answered(400, "InsufficientBalance"))
                   = Cardinality(issued) - k
              /\ packages[1].availableQuantity = 0

\* three requests on two credits have all answered
C2_Witness ==
  /\ \A r \in 1 .. 3 : pc[r] = "done"
  /\ packages[1].initialQuantity = 2
  /\ Answered(400, "InsufficientBalance") # {}

\* the general discount amount of a stored sale, from its stored columns
StoredGeneralDiscount(s) ==
  IF s.generalDiscountType = "percentage"
  THEN (s.subtotal * s.generalDiscountValue) \div 100
  ELSE IF s.generalDiscountType = "fixed" THEN s.generalDiscountValue
  ELSE 0

C5_TotalNeverNegative ==
  \A id \in DOMAIN sales : sales[id].total >= 0

Transitions ==
  {<<"aberta", "confirmada">>, <<"aberta", "cancelada">>,
   <<"confirmada", "cancelada">>}

\* C6: a sale is created in status aberta, and its status changes only
\* along aberta -> confirmada, aberta -> cancelada, confirmada -> cancelada.
C6_StatusTransitions ==
  [][\A id \in DOMAIN sales' :
       IF id \in DOMAIN sales
       THEN \/ sales'[id].status = sales[id].status
            \/ <<sales[id].status, sales'[id].status>> \in Transitions
       ELSE sales'[id].status = "aberta"]_vars

\* a sale went from aberta through confirmada to cancelada
C6_Witness ==
  \E id \in DOMAIN sales :
    /\ sales[id].status = "cancelada"
    /\ \E c \in commissions : c.sale = id /\ c.status = "reversed"

NotOpen(id) == id \in DOMAIN sales /\ sales[id].status # "aberta"

\* C7: an update or a confirm by an authenticated caller on a sale whose
\* status is not aberta answers 400 and leaves every stored row unchanged.
C7_NotOpenRejected ==
  [][/\ \A u \in Users, b \in PutBodies :
          (NotOpen(b.id) /\ PutCheck(Editor, u, b))
            => (pc'[Editor] = "done" /\ resp'[Editor].status = 400
                /\ UNCHANGED <<db, txn>>)
     /\ \A id \in 1 .. MaxEdited :
          (NotOpen(id) /\ ConfirmSale(Clerk, "ana", id))
            => (resp'[Clerk].status = 400 /\ UNCHANGED db)]_vars

\* an update and a confirm were both refused on a confirmed sale
C7_Witness ==
  /\ \E id \in DOMAIN sales : sales[id].status = "confirmada"
  /\ \A id \in DOMAIN sales : sales[id].status # "cancelada"
  /\ resp[Editor].status = 400
  /\ resp[Editor].error = "Apenas vendas abertas podem ser editadas"
  /\ resp[Clerk].status = 400
  /\ resp[Clerk].error = "InvalidState"

\* header, items and totals of a stored sale
Content(s) ==
  <<s.clientId, s.paymentMethod, s.generalDiscountType, s.generalDiscountValue,
    s.items, s.subtotal, s.totalDiscount, s.total>>

MayEdit(u, id) == IsAdmin(u) \/ sales[id].attendant = u

\* C8: an update of an open sale by a user who is neither its attendant nor
\* an admin answers 403 and changes nothing; header, items and totals of a
\* sale change only by an update of its attendant or of an admin.
C8_OnlyOwnerOrAdmin ==
  [][/\ \A u \in Users, b \in PutBodies :
          (/\ b.id \in DOMAIN sales
           /\ sales[b.id].status = "aberta"
           /\ ~MayEdit(u, b.id)
           /\ PutCheck(Editor, u, b))
            => (pc'[Editor] = "done" /\ resp'[Editor].status = 403
                /\ UNCHANGED <<db, txn>>)
     /\ \A id \in DOMAIN sales :
          Content(sales'[id]) # Content(sales[id])
            => (/\ req[Editor].kind = "PUT"
                /\ req[Editor].body.id = id
                /\ MayEdit(req[Editor].caller, id))]_vars

\* an update of a sale was refused with 403 after another had replaced the
\* items of a sale
C8_Witness ==
  /\ pc[Editor] = "done"
  /\ resp[Editor].status = 403
  /\ \E id \in DOMAIN sales :
       Len(sales[id].items) = 1 /\ sales[id].items[1].quantity = 2

\* C11: a package created by a package-sale has initialQuantity = the
\* quantity of the sale's first item, consumedQuantity = 0,
\* availableQuantity = initialQuantity, totalPaid = the sale's final total,
\* unitPrice = totalPaid / initialQuantity and isActive = true; 10 credits
\* paid 500 have unitPrice 50.
C11_NewPackage ==
  \A p \in DOMAIN packages :
    LET k == packages[p]
        s == sales[k.saleId]
    IN  /\ k.initialQuantity = s.items[1].quantity
        /\ k.consumedQuantity = 0
        /\ k.availableQuantity = k.initialQuantity
        /\ k.totalPaid = s.total
        /\ k.unitPrice.num * k.initialQuantity = k.totalPaid * k.unitPrice.den
        /\ k.isActive
        /\ (k.initialQuantity = 10 /\ k.totalPaid = 500)
             => k.unitPrice.num = 50 * k.unitPrice.den

\* the package of 10 credits paid 500 has been created
C11_Witness ==
  /\ pc[Editor] = "done"
  /\ resp[Editor].status = 201
  /\ \E p \in DOMAIN packages :
       packages[p].initialQuantity = 10 /\ packages[p].totalPaid = 500

\* the consumption in flight: its package and its quantity
Consuming(p, q) ==
  /\ req[Editor].kind = "POST"
  /\ req[Editor].body.saleType = "03"
  /\ req[Editor].body.packageId = p
  /\ req[Editor].body.items[1].quantity = q

\* C12: a consumption of q <= availableQuantity lowers availableQuantity and
\* raises consumedQuantity by exactly q and records the link to the sale;
\* one of q > availableQuantity fails with InsufficientBalance and leaves the
\* package as it was (10 credits: 3 consumed leave 7 / 3, then 8 are refused).
C12_Consume ==
  [][\A p \in DOMAIN packages, q \in ConsumeQuantities :
       /\ (Consuming(p, q) /\ pc'[Editor] = "done" /\ resp'[Editor].status = 201)
            => /\ q <= packages[p].availableQuantity
               /\ packages'[p].availableQuantity = packages[p].availableQuantity - q
               /\ packages'[p].consumedQuantity = packages[p].consumedQuantity + q
               /\ consumptions' = consumptions \cup
                    {[pkg |-> p, sale |-> resp'[Editor].saleId, qty |-> q,
                      reversed |-> FALSE]}
               /\ resp'[Editor].saleId \in DOMAIN sales' \ DOMAIN sales
       /\ (Consuming(p, q) /\ pc[Editor] = "ledger"
             /\ q > packages[p].availableQuantity /\ PostLedger(Editor))
            => /\ pc'[Editor] = "done"
               /\ resp'[Editor].status = 400
               /\ resp'[Editor].error = "InsufficientBalance"
               /\ UNCHANGED db
       /\ packages'[p] # packages[p] => resp'[Editor].status = 201]_vars

\* 3 of the 10 credits were consumed and then 8 were refused
C12_Witness ==
  /\ packages[1].availableQuantity = 7
  /\ packages[1].consumedQuantity = 3
  /\ pc[Editor] = "done"
  /\ resp[Editor].error = "InsufficientBalance"

\* the consumption of q credits of package p that sale id made
Consumed(id, p, q) ==
  \E c \in consumptions : c.sale = id /\ c.pkg = p /\ c.qty = q

\* C13: the first cancel of a confirmed sale that consumed q credits raises
\* the package's availableQuantity and lowers its consumedQuantity by
\* exactly q; a further cancel of the sale changes neither the package
\* balances nor the commissions.
C13_CancelReversesOnce ==
  [][\A id \in RefundSales :
       CancelSale(Clerk, "ana", id) =>
         /\ (id \in DOMAIN sales /\ sales[id].status = "confirmada")
              => \A p \in DOMAIN packages, q \in ConsumeQuantities :
                   Consumed(id, p, q)
                     => /\ packages'[p].availableQuantity
                             = packages[p].availableQuantity + q
                        /\ packages'[p].consumedQuantity
                             = packages[p].consumedQuantity - q
         /\ (id \in DOMAIN sales /\ sales[id].status = "cancelada")
              => UNCHANGED <<packages, consumptions, commissions>>]_vars

\* a confirmed consumption was cancelled, its credits are back, and a second
\* cancel of it was refused
C13_Witness ==
  /\ pc[Clerk] = "done"
  /\ resp[Clerk].status = 400
  /\ \E c \in consumptions :
       c.reversed /\ sales[c.sale].status = "cancelada"
                  /\ \E k \in commissions : k.sale = c.sale /\ k.status = "reversed"
  /\ packages[1].availableQuantity = packages[1].initialQuantity

CommissionRows(cs, id) == {c \in cs : c.sale = id}

\* C14: a sale has commissions only once it has been confirmed; confirming
\* it creates one active commission per sale item; cancelling it afterwards
\* makes them reversed, and the number of commissions of a sale never
\* decreases.
C14_Commissions ==
  [][\A id \in 1 .. MaxEdited :
       /\ CommissionRows(commissions', id) # {}
            => (id \in DOMAIN sales'
                /\ sales'[id].status \in {"confirmada", "cancelada"})
       /\ id \in DOMAIN sales =>
            /\ (sales[id].status = "aberta" /\ sales'[id].status = "confirmada")
                 => CommissionRows(commissions', id) =
                      {[sale |-> id, item |-> i, status |-> "active"] :
                         i \in 1 .. Len(sales[id].items)}
            /\ (sales[id].status = "confirmada" /\ sales'[id].status = "cancelada")
                 => CommissionRows(commissions', id) =
                      {[c EXCEPT !.status = "reversed"] :
                         c \in CommissionRows(commissions, id)}
       /\ Cardinality(CommissionRows(commissions', id))
            >= Cardinality(CommissionRows(commissions, id))]_vars

\* the cancel of a confirmed sale has answered 200 and the sale keeps its
\* commission, reversed
C14_Witness ==
  /\ pc[Clerk] = "done"
  /\ resp[Clerk].status = 200
  /\ \E id \in DOMAIN sales :
       /\ sales[id].status = "cancelada"
       /\ CommissionRows(commissions, id) # {}
       /\ \A c \in CommissionRows(commissions, id) : c.status = "reversed"

\* C15: every item of a created package-consumption sale has
\* discountAmount = 0 and total = subtotal, whatever discount the request
\* carried.
C15_ConsumptionUndiscounted ==
  \A c \in consumptions :
    \A i \in 1 .. Len(sales[c.sale].items) :
      /\ sales[c.sale].items[i].discountAmount = 0
      /\ sales[c.sale].items[i].total = sales[c.sale].items[i].subtotal

\* C16: the general discount of a sale is taken on the sum of its item
\* totals after item discounts: a general percentage p gives p% of (sum of
\* item subtotals - sum of item discounts), a fixed one gives its value.
C16_GeneralDiscountBase ==
  \A id \in DOMAIN sales :
    LET s        == sales[id]
        itemsOff == SumOver(s.items, "discountAmount")
        general  == s.totalDiscount - itemsOff
    IN  /\ s.generalDiscountType = "percentage"
             => 100 * general = (s.subtotal - itemsOff) * s.generalDiscountValue
        /\ s.generalDiscountType = "fixed" => general = s.generalDiscountValue

\* the tiers of a sale type, and the tiers a price is looked up in
TiersOf(ranges, st) == {i \in 1 .. Len(ranges) : ranges[i].saleType = st}

TiersUsed(ranges, st) ==
  IF TiersOf(ranges, st) = {} THEN TiersOf(ranges, "01") ELSE TiersOf(ranges, st)

\* the names that are a complaint-type service, whatever case and diacritics
Progressive(name) == name \in {"Reclamacao", "RECLAMACAO", "Reclamação"}

\* C17: for a non-progressive service the price of quantity q is q times the
\* unit price of the tier that contains q, among the tiers of the sale type
\* or, when it has none, of the common type 01; it is 0 when no tier
\* contains q.
C17_TierPrice ==
  (quote # NoQuote /\ ~Progressive(form.serviceName)) =>
    LET used == TiersUsed(form.priceRanges, form.saleType)
        hold == {i \in used : Contains(form.priceRanges[i], form.quantity)}
    IN  IF hold = {} THEN quote[1] = 0
        ELSE \A i \in hold : quote[1] = form.quantity * form.priceRanges[i].unitPrice

\* a sale type without tiers of its own was priced from the tiers of type 01
C17_Witness ==
  /\ quote = <<150>>
  /\ form.serviceName = "Atraso"
  /\ form.saleType = "03"
  /\ form.quantity = 3

\* C18: for a progressive service with two tiers the price of quantity q is
\* q x rate1 within the first tier and N x rate1 + (q - N) x rate2 above it,
\* where N is the upper bound of the first tier (tiers [1-10]@40 and
\* [11-unbounded]@15: quantity 15 costs 475).
C18_ProgressivePrice ==
  LET used == TiersUsed(form.priceRanges, form.saleType)
  IN  (/\ quote # NoQuote
       /\ Progressive(form.serviceName)
       /\ Cardinality(used) = 2) =>
        LET first  == CHOOSE i \in used :
                        \A j \in used :
                          form.priceRanges[i].minQuantity
                            <= form.priceRanges[j].minQuantity
            second == CHOOSE j \in used : j # first
            rate1  == form.priceRanges[first].unitPrice
            rate2  == form.priceRanges[second].unitPrice
            q      == form.quantity
        IN  form.priceRanges[first].maxQuantity # <<>> =>
              LET n == form.priceRanges[first].maxQuantity[1]
              IN  quote[1] = IF q <= n THEN q * rate1
                             ELSE n * rate1 + (q - n) * rate2

Listed(r) == {s.id : s \in resp[r].sales}

\* C19: the list of sales answered to a non-admin caller holds only sales
\* whose attendant is that caller, and the one answered to an admin holds
\* all sales.
C19_ListOwnSales ==
  [][\A u \in Users :
       /\ GetSelect(Clerk, u)
            => DOMAIN req'[Clerk].rows =
                 IF IsAdmin(u) THEN DOMAIN sales
                 ELSE {id \in DOMAIN sales : sales[id].attendant = u}
       /\ (pc[Clerk] = "getItems" /\ req[Clerk].caller = u
             /\ pc'[Clerk] = "done" /\ resp'[Clerk].status = 200)
            => /\ {s.id : s \in resp'[Clerk].sales} = DOMAIN req[Clerk].rows
               /\ \A s \in resp'[Clerk].sales :
                    /\ s.attendantId = sales[s.id].attendant
                    /\ IsAdmin(u) \/ s.attendantId = u]_vars

\* a list was answered that holds a sale and leaves out the sale of another
\* attendant
C19_Witness ==
  /\ pc[Clerk] = "done"
  /\ resp[Clerk].status = 200
  /\ \E s \in resp[Clerk].sales :
       \E id \in DOMAIN sales \ Listed(Clerk) :
         sales[id].attendant # s.attendantId

\* C20: every route handler answers a request that carries no valid token
\* with status 401 and writes nothing for it.
C20_Unauthenticated401 ==
  [][\A route \in Routes, token \in BadTokens :
       Unauthenticated(Clerk, route, token)
         => (resp'[Clerk].status = 401 /\ UNCHANGED db)]_vars

\* C21: in every interleaving of an update with a confirm or a cancel of the
\* same sale, header, items and totals of a sale whose status is confirmada
\* or cancelada are never replaced.
C21_UpdateAtomic ==
  [][\A id \in DOMAIN sales :
       sales[id].status \in {"confirmada", "cancelada"}
         => Content(sales'[id]) = Content(sales[id])]_vars

\* the update in flight is about to commit, and answers 200
UpdateSucceeds(id) ==
  /\ pc[Editor] = "commit"
  /\ req[Editor].kind = "PUT"
  /\ req[Editor].body.id = id
  /\ pc'[Editor] = "done"
  /\ resp'[Editor].status = 200

\* C22: a successful update of a sale changes only that sale's header, items
\* and totals: it creates no package, changes no package, consumption or
\* commission and no other sale, whatever the new quantities and the sale's
\* type.
C22_UpdateFrame ==
  [][\A id \in DOMAIN sales :
       UpdateSucceeds(id)
         => /\ packages' = packages
            /\ consumptions' = consumptions
            /\ commissions' = commissions
            /\ DOMAIN sales' = DOMAIN sales
            /\ \A o \in DOMAIN sales \ {id} : sales'[o] = sales[o]
            /\ sales'[id].status = sales[id].status
            /\ sales'[id].attendant = sales[id].attendant
            /\ UNCHANGED seqs]_vars

\* the sale that sold the package of 10 credits was updated to 20 units,
\* after a consumption of the package
C22_Witness ==
  /\ pc[Editor] = "done"
  /\ resp[Editor].status = 200
  /\ resp[Editor].saleId = 1
  /\ sales[1].items[1].quantity = 20
  /\ packages[1].initialQuantity = 10
  /\ packages[1].consumedQuantity > 0

\* C23: the subtotal stored for each item of a created sale is the price of
\* the item's quantity under the service's tiers and the sale type, whatever
\* subtotal the request carried.
C23_SubtotalFromCalculator ==
  \A id \in DOMAIN sales :
    \A i \in 1 .. Len(sales[id].items) :
      sales[id].items[i].subtotal =
        calculateProgressivePrice(sales[id].items[i].quantity, PricedService,
                                  PricedTiers, "01")

\* C24: applying a discount never yields a negative amount: every stored
\* sale item has total = max(0, subtotal - discountAmount), so an item whose
\* fixed discount exceeds its subtotal has total 0.
C24_ItemTotalClamped ==
  \A id \in DOMAIN sales :
    \A i \in 1 .. Len(sales[id].items) :
      LET it == sales[id].items[i]
      IN  it.total = IF it.subtotal - it.discountAmount < 0 THEN 0
                     ELSE it.subtotal - it.discountAmount

\* C25: a package-sale whose first item has quantity <= 0 is not created
\* (no 201) and no package with initialQuantity <= 0 ever exists.
C25_NoEmptyPackage ==
  /\ \A p \in DOMAIN packages : packages[p].initialQuantity > 0
  /\ \A r \in Reqs :
       (pc[r] = "done" /\ resp[r].status = 201 /\ resp[r].saleType = "02")
         => sales[resp[r].saleId].items[1].quantity > 0

\* C26: a datastore failure during sale creation or update is answered with
\* status 500, and the response does not carry the datastore's message.
C26_DatastoreFailure500 ==
  [][(TxnFail(Editor) \/ \E n \in 0 .. 3 : PutWriteFail(Editor, n))
       => (resp'[Editor].status = 500 /\ resp'[Editor].error # DatastoreError)]_vars

\* the tax-id of the request in flight is already that of another client
TaxIdTaken(r) ==
  /\ req[r].body.cpfCnpj # Missing
  /\ ClientsWithTaxId(req[r].body.cpfCnpj, req[r].body.id) # {}

\* C27: in every interleaving of client create and update requests, no two
\* clients have the same non-null tax-id, and a request whose tax-id is
\* already that of another client is answered 409 and writes nothing.
C27_UniqueTaxId ==
  [][/\ \A i, j \in DOMAIN clients' :
          (i # j /\ clients'[i].cpfCnpj # Null)
            => clients'[i].cpfCnpj # clients'[j].cpfCnpj
     /\ \A r \in ClientSlots :
          (pc[r] \in {"clientInsert", "clientUpdate"} /\ pc'[r] = "done"
             /\ TaxIdTaken(r))
            => (resp'[r].status = 409 /\ clients' = clients)]_vars

PackagesOf(pkgs, id) == {p \in DOMAIN pkgs : pkgs[p].saleId = id}

\* C28: after any sequence of create, update, confirm and cancel, at most
\* one package has a given sale as its originating sale: a package appears
\* only together with its sale, and no later operation on the sale adds
\* another or changes the originating sale of a package.
C28_OnePackagePerSale ==
  [][/\ \A id \in DOMAIN sales' : Cardinality(PackagesOf(packages', id)) <= 1
     /\ \A p \in DOMAIN packages' \ DOMAIN packages :
          packages'[p].saleId \in DOMAIN sales' \ DOMAIN sales
     /\ \A p \in DOMAIN packages :
          p \in DOMAIN packages' /\ packages'[p].saleId = packages[p].saleId]_vars

\* two package sales have their packages, and the first was updated,
\* confirmed and cancelled
C28_Witness ==
  /\ Cardinality(DOMAIN packages) = 2
  /\ \E id \in DOMAIN sales :
       /\ sales[id].status = "cancelada"
       /\ sales[id].items[1].quantity = 2
       /\ \E c \in commissions : c.sale = id /\ c.status = "reversed"
       /\ \E p \in DOMAIN packages :
            packages[p].saleId = id /\ packages[p].initialQuantity = 1

\* C29: after any sequence of successful create and update operations every
\* stored sale has at least one sale item.
C29_SaleHasItems ==
  \A id \in DOMAIN sales : Len(sales[id].items) >= 1

\* the handler of slot r responds in this step
Responds(r) ==
  /\ pc'[r] = "done"
  /\ <<pc'[r], resp'[r], txn'[r]>> # <<pc[r], resp[r], txn[r]>>

\* C30: on every path of sale create and update that has issued BEGIN, the
\* transaction is ended by COMMIT or ROLLBACK when the handler responds: a
\* response 201 or 200 is sent only by the step in which COMMIT makes the
\* writes of the transaction the stored rows, and an error response leaves
\* the stored rows as they were and no transaction open.
C30_TxnEndedBeforeResponse ==
  [][\A r \in Reqs :
       Responds(r) =>
         /\ ~InTxn(r)'
         /\ resp'[r].status \in {200, 201}
              => /\ InTxn(r)
                 /\ pc[r] = "commit"
                 /\ sales' = SalesAfter(txn[r])
                 /\ packages' = PackagesAfter(txn[r])
                 /\ consumptions' = ConsumptionsAfter(txn[r])
         /\ resp'[r].status >= 400 => UNCHANGED db]_vars

\* a consumption was refused after the sale and its items had been written
\* in the transaction, and an update had been committed before
C30_Witness ==
  /\ pc[Editor] = "done"
  /\ resp[Editor].status = 400
  /\ resp[Editor].error = "InsufficientBalance"
  /\ ~InTxn(Editor)
  /\ \E id \in DOMAIN sales : sales[id].items[1].quantity = 2
  /\ \E p \in DOMAIN packages : packages[p].initialQuantity = 1

====
